---- MODULE Spec2Model ----
(***************************************************************************)
(* Model of the discors gateway client: the Shard connection state machine *)
(* (src/gateway/shard.rs), the ShardManager driver loop                    *)
(* (src/gateway/shard_manager.rs) and the part of the websocket client and *)
(* the event model they use.                                               *)
(*                                                                         *)
(* Five specifications:                                                    *)
(*   Spec      the public operations of Shard called in any order with any *)
(*             decoded event and any transport outcome;                    *)
(*   EventSpec handle_event alone, fed any sequence of decoded events,     *)
(*             with a record of the "s" values it was given;               *)
(*   FairSpec  ShardManager::run against a gateway that greets every link  *)
(*             with Hello and answers Identify with Ready and Resume with  *)
(*             Resumed, over a reliable transport, with weak fairness on   *)
(*             the driver and on the gateway;                              *)
(*   TimingSpec do_heartbeat_interval called again and again between       *)
(*             events, resets, identifies and heartbeats, with the time    *)
(*             between the heartbeats it sends kept;                       *)
(*   DriverSpec ShardManager::run over whatever the link delivers (any     *)
(*             message, well formed or not, timeouts, errors, close) and   *)
(*             any outcome of connecting and sending.                      *)
(***************************************************************************)
EXTENDS Integers, Sequences, FiniteSets, TLC

\* ---------------------------------------------------------------- bounds
\* largest "s" value an inbound event carries
MaxSeq == 2
\* elapsed time (ms) after which the clock of the model stops advancing
MaxElapsed == 2
\* number of distinct transport link handles (handles are recycled)
MaxLinks == 2
\* number of Reconnect / InvalidSession events the gateway sends on its own
MaxGatewayKicks == 1

\* ---------------------------------------------------------------- Option
None == <<>>
Some(x) == <<x>>
is_some(o) == o # <<>>
unwrap_or(o, d) == IF o = <<>> THEN d ELSE o[1]

\* ---------------------------------------------------------------- Result
Ok(v) == [ok |-> TRUE, val |-> v]
Err(e) == [ok |-> FALSE, err |-> e]
Unit == <<>>
\* a returned bool
Bool(b) == [bool |-> b]
\* crate::error::Error variants met in the gateway code
NoSessionToResume == "Gateway(NoSessionToResume)"
WebsocketError == "Websocket"

\* ---------------------------------------------------------------- Duration
\* std::time::Duration is a (seconds, nanoseconds) pair
Duration_from_millis(ms) ==
    [secs |-> ms \div 1000, nanos |-> (ms % 1000) * 1000000]
Duration_as_millis(d) == d.secs * 1000 + d.nanos \div 1000000
Duration_le(a, b) ==
    \/ a.secs < b.secs
    \/ a.secs = b.secs /\ a.nanos <= b.nanos

\* ---------------------------------------------------------------- inputs
\* heartbeat_interval values (ms) a Hello carries
HeartbeatIntervals == {1, 41250}
\* (session_id, resume_gateway_url) pairs a Ready carries
ReadyEvents ==
    { [session_id |-> "abc", resume_gateway_url |-> "wss://x"],
      [session_id |-> "def", resume_gateway_url |-> "wss://y"] }
GatewayUrl == "wss://gateway.discord.gg"
Token == "T"

\* ---------------------------------------------------------------- enums
ReconnectionKind == {"Identify", "Resume"}
ShardAction_Heartbeat == <<"Heartbeat">>
ShardAction_Identify == <<"Identify">>
ShardAction_Reconnect(kind) == <<"Reconnect", kind>>
ConnectionStage ==
    {"Connecting", "Connected", "Disconnected", "Handshake", "Identifying",
     "Resuming"}

\* ---------------------------------------------------------------- events
\* DispatchEvent
DispatchEvent_Ready(ready) == [t |-> "READY", ready |-> ready]
DispatchEvent_Resumed == [t |-> "RESUMED"]
DispatchEvent_GuildCreate == [t |-> "GUILD_CREATE"]
DispatchEvents ==
    {DispatchEvent_Ready(r) : r \in ReadyEvents}
        \cup {DispatchEvent_Resumed, DispatchEvent_GuildCreate}

\* ReceiveEventData
ReceiveEventData_Dispatch(data) == [tag |-> "Dispatch", data |-> data]
ReceiveEventData_Heartbeat == [tag |-> "Heartbeat"]
ReceiveEventData_Reconnect == [tag |-> "Reconnect"]
ReceiveEventData_InvalidSession(resumable) ==
    [tag |-> "InvalidSession", resumable |-> resumable]
ReceiveEventData_Hello(heartbeat_interval) ==
    [tag |-> "Hello", heartbeat_interval |-> heartbeat_interval]
ReceiveEventData_HeartbeatAck == [tag |-> "HeartbeatAck"]

\* Event as decoded from the wire: opcode, Option<ReceiveEventData>,
\* Option<u64> sequence
Event(op, receive_data, seq) ==
    [op |-> op, receive_data |-> receive_data, sequence |-> seq]

\* the decoded events whose "s", on a Dispatch, is drawn from S
EventsWith(S) ==
    {Event("Dispatch", Some(ReceiveEventData_Dispatch(d)), s) :
        d \in DispatchEvents, s \in S}
    \cup {Event("Heartbeat", Some(ReceiveEventData_Heartbeat), s) :
        s \in {None, Some(MaxSeq)}}
    \cup {Event("Reconnect", Some(ReceiveEventData_Reconnect), None)}
    \cup {Event("InvalidSession", Some(ReceiveEventData_InvalidSession(b)), None) :
        b \in BOOLEAN}
    \cup {Event("Hello", Some(ReceiveEventData_Hello(h)), None) :
        h \in HeartbeatIntervals}
    \cup {Event("HeartbeatACK", Some(ReceiveEventData_HeartbeatAck), None)}
    \cup {Event("Identify", None, None)}

\* every "s" from absent to MaxSeq
Events == EventsWith({None} \cup {Some(n) : n \in 0..MaxSeq})
\* "s" absent or MaxSeq
SomeEvents == EventsWith({None, Some(MaxSeq)})


\* ---------------------------------------------------------------- wire
\* a JSON value found under "d"
JAbsent == [json |-> "absent"]
JBool(b) == [json |-> "bool", bool |-> b]
JObject == [json |-> "object"]
JHello(h) == [json |-> "object", heartbeat_interval |-> h]
JReady(r) == [json |-> "object", ready |-> r]

\* a JSON object with the keys Event::deserialize looks at; op is None when
\* the key is missing or its value is not an unsigned integer
Envelope(op, s, t, d) == [op |-> op, s |-> s, t |-> t, d |-> d]

\* the values From<u8> for OpCode has an arm for
OpCodeValues == {0, 1, 2, 3, 4, 6, 7, 8, 9, 10, 11, 31}

\* From<u8> for OpCode; the caller has excluded the panic of the last arm
OpCode_from(value) ==
    CASE value = 0 -> "Dispatch"
      [] value = 1 -> "Heartbeat"
      [] value = 2 -> "Identify"
      [] value = 3 -> "PresenceUpdate"
      [] value = 4 -> "VoiceStateUpdate"
      [] value = 6 -> "Resume"
      [] value = 7 -> "Reconnect"
      [] value = 8 -> "RequestGuildMembers"
      [] value = 9 -> "InvalidSession"
      [] value = 10 -> "Hello"
      [] value = 11 -> "HeartbeatACK"
      [] value = 31 -> "RequestSoundboardSounds"

\* a panic, which unwinds through every caller
Panic == [ok |-> FALSE, err |-> "panic"]
JsonError == "Json"
IoError == "Io"

\* DispatchEvent::deserialize over the envelope: tag "t", content "d"
DispatchEvent_deserialize(map) ==
    IF map.t = Some("READY") /\ map.d.json = "object"
          /\ "ready" \in DOMAIN map.d
    THEN Ok(DispatchEvent_Ready(map.d.ready))
    ELSE IF map.t = Some("RESUMED") THEN Ok(DispatchEvent_Resumed)
    ELSE IF map.t = Some("GUILD_CREATE") /\ map.d.json = "object"
    THEN Ok(DispatchEvent_GuildCreate)
    ELSE Err(JsonError)

\* ReceiveEventData::deserialize, untagged: the first variant the value fits
ReceiveEventData_deserialize(inner) ==
    IF inner.json = "bool"
    THEN Ok(ReceiveEventData_InvalidSession(inner.bool))
    ELSE IF inner.json = "object" /\ "heartbeat_interval" \in DOMAIN inner
    THEN Ok(ReceiveEventData_Hello(inner.heartbeat_interval))
    ELSE Err(JsonError)

\* Event::deserialize
Event_deserialize(map) ==
    IF map.op = None THEN Err(JsonError)
    ELSE LET value == map.op[1] % 256 IN
         IF value \notin OpCodeValues THEN Panic
         ELSE LET op == OpCode_from(value) IN
              CASE op = "Dispatch" ->
                       LET d == DispatchEvent_deserialize(map) IN
                       IF ~d.ok THEN d
                       ELSE Ok(Event(op, Some(ReceiveEventData_Dispatch(d.val)),
                                     map.s))
                [] op = "Heartbeat" ->
                       Ok(Event(op, Some(ReceiveEventData_Heartbeat), map.s))
                [] op = "Reconnect" ->
                       Ok(Event(op, Some(ReceiveEventData_Reconnect), map.s))
                [] op = "InvalidSession" ->
                       IF map.d.json # "bool" THEN Err(JsonError)
                       ELSE Ok(Event(op,
                                     Some(ReceiveEventData_InvalidSession(
                                              map.d.bool)),
                                     map.s))
                [] op = "Hello" ->
                       IF map.d.json = "absent" THEN Err(JsonError)
                       ELSE LET d == ReceiveEventData_deserialize(map.d) IN
                            IF ~d.ok THEN d
                            ELSE Ok(Event(op, Some(d.val), map.s))
                [] op = "HeartbeatACK" ->
                       Ok(Event(op, Some(ReceiveEventData_HeartbeatAck), map.s))
                [] OTHER -> Ok(Event(op, None, map.s))

\* ---------------------------------------------------------------- state
VARIABLES
    \* struct Shard
    websocket,                \* the transport link: [id, url, ended]
    connection_stage,
    heartbeat_interval,       \* Option<Duration>
    last_heartbeat_sent,      \* Option<Instant>, kept as the ms elapsed since
    last_heartbeat_received,
    sequence,
    session_id,
    resume_url,
    \* observation of the last step
    pre,                      \* the Shard before it
    call,                     \* the operation performed and its arguments
    result,                   \* the value it returned
    sent,                     \* the frames it transmitted: [link, frame]
    \* "s" values handle_event has been given since construction / reset
    observed_max,             \* Option: the largest of them
    increasing,               \* they came in increasing order on Dispatch
                              \* events only
    \* the heartbeats do_heartbeat_interval sent
    check_beat,               \* Option: [age: ms elapsed since the last of
                              \* them, gap: Option, the ms between it and
                              \* the one before]
    \* ShardManager::run
    pc,                       \* position in the loop body
    action,                   \* Option<ShardAction> of this iteration
    missed_ack,               \* do_heartbeat_interval returned false in it
    \* the gateway end of the link
    inbox,                    \* events in flight towards the client
    gw_todo,                  \* events the gateway has yet to put in flight
    gw_kicks                  \* Reconnect / InvalidSession it sent unasked

shard_vars ==
    <<websocket, connection_stage, heartbeat_interval, last_heartbeat_sent,
      last_heartbeat_received, sequence, session_id, resume_url>>
obs_vars == <<pre, call, result, sent, observed_max, increasing, check_beat>>
driver_vars == <<pc, action, missed_ack>>
gateway_vars == <<inbox, gw_todo, gw_kicks>>
vars == <<shard_vars, obs_vars, driver_vars, gateway_vars>>

\* the Shard as one value (`self`)
Self ==
    [websocket |-> websocket,
     connection_stage |-> connection_stage,
     heartbeat_interval |-> heartbeat_interval,
     last_heartbeat_sent |-> last_heartbeat_sent,
     last_heartbeat_received |-> last_heartbeat_received,
     sequence |-> sequence,
     session_id |-> session_id,
     resume_url |-> resume_url]

\* what an operation leaves behind: the Shard, the return value, the frames
\* it put on the wire
Out(self, ret, frames) == [self |-> self, ret |-> ret, sent |-> frames]

\* ---------------------------------------------------------------- websocket
\* WebsocketClient::connect: a new link to url; the handle differs from the
\* one it replaces
WebsocketClient_connect(old, url) ==
    [id |-> (old.id % MaxLinks) + 1, url |-> url, ended |-> FALSE]

\* tungstenite::Message
Message_Text(text) == [kind |-> "Text", text |-> text]
Message_Binary(inflates, text) ==
    [kind |-> "Binary", inflates |-> inflates, text |-> text]
Message_Close(frame) == [kind |-> "Close", frame |-> frame]
Message_Ping == [kind |-> "Ping"]

\* what timeout(500 ms, stream.next()) comes back with
Poll_Elapsed == [poll |-> "Elapsed"]
Poll_End == [poll |-> "End"]
Poll_Error == [poll |-> "Error"]
Poll_Message(message) == [poll |-> "Message", message |-> message]
\* the link had ended, and is not polled
Poll_Terminated == [poll |-> "Terminated"]

\* gateway::error::Error::Closed, inside crate::error::Error::Gateway
Closed(frame) == [ok |-> FALSE, err |-> "Gateway(Closed)", frame |-> frame]

\* serde_json::from_str::<Event>; text is None when it is not a JSON object
from_str(text) ==
    IF text = None THEN Err(JsonError) ELSE Event_deserialize(text[1])

\* WebsocketClient::receive that takes the timeout for the end of the link
WebsocketClient_receive_timeout_closes(link, polled) ==
    IF link.ended THEN [link |-> link, ret |-> Closed(None)]
    ELSE CASE polled.poll = "Elapsed" -> [link |-> link, ret |-> Closed(None)]
           [] polled.poll = "End" ->
                  [link |-> [link EXCEPT !.ended = TRUE], ret |-> Ok(None)]
           [] polled.poll = "Error" ->
                  [link |-> link, ret |-> Err(WebsocketError)]
           [] polled.poll = "Message" ->
                  LET message == polled.message
                      value ==
                          CASE message.kind = "Binary" ->
                                   IF ~message.inflates THEN Err(IoError)
                                   ELSE from_str(message.text)
                            [] message.kind = "Text" -> from_str(message.text)
                            [] message.kind = "Close" -> Closed(message.frame)
                            [] OTHER -> Ok(None)
                  IN  [link |-> link,
                       ret |-> IF message.kind \in {"Binary", "Text"}
                                  /\ value.ok
                               THEN Ok(Some(value.val)) ELSE value]

\* WebsocketClient::receive that takes a Close message for a message of no
\* interest
WebsocketClient_receive_close_ignored(link, polled) ==
    IF link.ended THEN [link |-> link, ret |-> Closed(None)]
    ELSE CASE polled.poll = "Elapsed" -> [link |-> link, ret |-> Ok(None)]
           [] polled.poll = "End" ->
                  [link |-> [link EXCEPT !.ended = TRUE], ret |-> Ok(None)]
           [] polled.poll = "Error" ->
                  [link |-> link, ret |-> Err(WebsocketError)]
           [] polled.poll = "Message" ->
                  LET message == polled.message
                      value ==
                          CASE message.kind = "Binary" ->
                                   IF ~message.inflates THEN Err(IoError)
                                   ELSE from_str(message.text)
                            [] message.kind = "Text" -> from_str(message.text)
                            [] OTHER -> Ok(None)
                  IN  [link |-> link,
                       ret |-> IF message.kind \in {"Binary", "Text"}
                                  /\ value.ok
                               THEN Ok(Some(value.val)) ELSE value]

\* WebsocketClient::receive; a stream that has ended is terminated from then on
WebsocketClient_receive(link, polled) ==
    IF link.ended THEN [link |-> link, ret |-> Closed(None)]
    ELSE CASE polled.poll = "Elapsed" -> [link |-> link, ret |-> Ok(None)]
           [] polled.poll = "End" ->
                  [link |-> [link EXCEPT !.ended = TRUE], ret |-> Ok(None)]
           [] polled.poll = "Error" ->
                  [link |-> link, ret |-> Err(WebsocketError)]
           [] polled.poll = "Message" ->
                  LET message == polled.message
                      value ==
                          CASE message.kind = "Binary" ->
                                   IF ~message.inflates THEN Err(IoError)
                                   ELSE from_str(message.text)
                            [] message.kind = "Text" -> from_str(message.text)
                            [] message.kind = "Close" -> Closed(message.frame)
                            [] OTHER -> Ok(None)
                  IN  [link |-> link,
                       ret |-> IF message.kind \in {"Binary", "Text"}
                                  /\ value.ok
                               THEN Ok(Some(value.val)) ELSE value]

\* Instant::now(), as the time elapsed since
Instant_now == 0

\* Event::default()
Event_default ==
    [op |-> "Heartbeat", receive_data |-> None, send_data |-> None,
     sequence |-> None, event |-> None]

\* From<OpCode> for u8
OpCode_into(op) == CHOOSE value \in OpCodeValues : OpCode_from(value) = op

\* the fields of struct Event as derive(Serialize) sees them: the JSON key
\* each is renamed to, and whether it is skipped
Event_fields ==
    { [field |-> "op", key |-> "op", skip_serializing |-> FALSE],
      [field |-> "receive_data", key |-> "d", skip_serializing |-> TRUE],
      [field |-> "send_data", key |-> "d", skip_serializing |-> FALSE],
      [field |-> "sequence", key |-> "s", skip_serializing |-> FALSE],
      [field |-> "event", key |-> "t", skip_serializing |-> FALSE] }

\* serde_json::to_string of an Event: the JSON object, key by key; a None is
\* written as null
to_string(event) ==
    LET written == {f \in Event_fields : ~f.skip_serializing} IN
    [key \in {f.key : f \in written} |->
        LET f == CHOOSE g \in written : g.key = key IN
        IF f.field = "op" THEN OpCode_into(event.op) ELSE event[f.field]]

\* WebsocketClient::send: what goes on the wire is the text of the event
send(link, message) ==
    [link |-> link.id, frame |-> message, text |-> to_string(message)]

\* WebsocketClient::send_heartbeat
send_heartbeat(link, seq) ==
    send(link,
         [Event_default EXCEPT
             !.op = "Heartbeat",
             !.send_data = Some([tag |-> "Heartbeat", sequence |-> seq])])

\* WebsocketClient::send_identify
send_identify(link, token) ==
    send(link,
         [Event_default EXCEPT
             !.op = "Identify",
             !.send_data = Some([tag |-> "Identify", token |-> token])])

\* WebsocketClient::send_resume
send_resume(link, token, sid, seq) ==
    send(link,
         [Event_default EXCEPT
             !.op = "Resume",
             !.send_data = Some([tag |-> "Resume", token |-> token,
                                 session_id |-> sid, sequence |-> seq])])

\* ---------------------------------------------------------------- Shard
\* Shard::new
new ==
    [websocket |-> [id |-> 1, url |-> GatewayUrl, ended |-> FALSE],
     connection_stage |-> "Handshake",
     heartbeat_interval |-> None,
     last_heartbeat_sent |-> None,
     last_heartbeat_received |-> FALSE,
     sequence |-> 0,
     session_id |-> None,
     resume_url |-> None]

\* init that starts the handshake over on the link it opened
init_handshake(self, connect_ok) ==
    LET s1 == [self EXCEPT !.connection_stage = "Connecting"]
        url == unwrap_or(s1.resume_url, GatewayUrl)
    IN  IF connect_ok
        THEN Out([s1 EXCEPT !.websocket = WebsocketClient_connect(@, url),
                            !.connection_stage = "Handshake"],
                 Ok(Unit), <<>>)
        ELSE Out(s1, Err(WebsocketError), <<>>)

\* Shard::init
init(self, connect_ok) ==
    LET s1 == [self EXCEPT !.connection_stage = "Connecting"]
        url == unwrap_or(s1.resume_url, GatewayUrl)
    IN  IF connect_ok
        THEN Out([s1 EXCEPT !.websocket = WebsocketClient_connect(@, url)],
                 Ok(Unit), <<>>)
        ELSE Out(s1, Err(WebsocketError), <<>>)

\* reset that forgets the session whatever `resuming` is
reset_forget(self, resuming) ==
    Out([self EXCEPT !.last_heartbeat_sent = Some(Instant_now),
                     !.last_heartbeat_received = TRUE,
                     !.heartbeat_interval = None,
                     !.connection_stage = "Disconnected",
                     !.sequence = 0,
                     !.session_id = None,
                     !.resume_url = None],
        Unit, <<>>)

\* reset that clears last_heartbeat_sent instead of restarting it
reset_no_stamp(self, resuming) ==
    LET s1 == [self EXCEPT !.last_heartbeat_sent = None,
                           !.last_heartbeat_received = TRUE,
                           !.heartbeat_interval = None,
                           !.connection_stage = "Disconnected",
                           !.sequence = 0]
    IN  Out(IF ~resuming
            THEN [s1 EXCEPT !.session_id = None, !.resume_url = None]
            ELSE s1,
            Unit, <<>>)

\* Shard::reset
reset(self, resuming) ==
    LET s1 == [self EXCEPT !.last_heartbeat_sent = Some(Instant_now),
                           !.last_heartbeat_received = TRUE,
                           !.heartbeat_interval = None,
                           !.connection_stage = "Disconnected",
                           !.sequence = 0]
    IN  Out(IF ~resuming
            THEN [s1 EXCEPT !.session_id = None, !.resume_url = None]
            ELSE s1,
            Unit, <<>>)

\* Dispatch arm in which Ready leaves the pending acknowledgment alone
handle_dispatch_no_ack(self, event, data) ==
    LET s1 == IF data.t = "READY"
              THEN [self EXCEPT
                       !.resume_url = Some(data.ready.resume_gateway_url),
                       !.session_id = Some(data.ready.session_id),
                       !.connection_stage = "Connected"]
              ELSE IF data.t = "RESUMED"
              THEN [self EXCEPT
                       !.connection_stage = "Connected",
                       !.last_heartbeat_received = TRUE,
                       !.last_heartbeat_sent = Some(Instant_now)]
              ELSE self
    IN  Out([s1 EXCEPT !.sequence = unwrap_or(event.sequence, s1.sequence)],
            Ok(None), <<>>)

\* Dispatch arm in which a missing "s" zeroes the stored sequence
handle_dispatch_seq_default(self, event, data) ==
    LET s1 == IF data.t = "READY"
              THEN [self EXCEPT
                       !.resume_url = Some(data.ready.resume_gateway_url),
                       !.session_id = Some(data.ready.session_id),
                       !.connection_stage = "Connected",
                       !.last_heartbeat_received = TRUE]
              ELSE IF data.t = "RESUMED"
              THEN [self EXCEPT
                       !.connection_stage = "Connected",
                       !.last_heartbeat_received = TRUE,
                       !.last_heartbeat_sent = Some(Instant_now)]
              ELSE self
    IN  Out([s1 EXCEPT !.sequence = unwrap_or(event.sequence, 0)],
            Ok(None), <<>>)

\* Dispatch arm whose Ready stores the session id without the resume URL
handle_dispatch_no_url(self, event, data) ==
    LET s1 == IF data.t = "READY"
              THEN [self EXCEPT
                       !.session_id = Some(data.ready.session_id),
                       !.connection_stage = "Connected",
                       !.last_heartbeat_received = TRUE]
              ELSE IF data.t = "RESUMED"
              THEN [self EXCEPT
                       !.connection_stage = "Connected",
                       !.last_heartbeat_received = TRUE,
                       !.last_heartbeat_sent = Some(Instant_now)]
              ELSE self
    IN  Out([s1 EXCEPT !.sequence = unwrap_or(event.sequence, s1.sequence)],
            Ok(None), <<>>)

\* Shard::handle_event, the Dispatch arm
handle_dispatch(self, event, data) ==
    LET s1 == IF data.t = "READY"
              THEN [self EXCEPT
                       !.resume_url = Some(data.ready.resume_gateway_url),
                       !.session_id = Some(data.ready.session_id),
                       !.connection_stage = "Connected",
                       !.last_heartbeat_received = TRUE]
              ELSE IF data.t = "RESUMED"
              THEN [self EXCEPT
                       !.connection_stage = "Connected",
                       !.last_heartbeat_received = TRUE,
                       !.last_heartbeat_sent = Some(Instant_now)]
              ELSE self
    IN  Out([s1 EXCEPT !.sequence = unwrap_or(event.sequence, s1.sequence)],
            Ok(None), <<>>)

\* Heartbeat arm that asks for a heartbeat in every stage
handle_heartbeat_plain(self) ==
    Out(self, Ok(Some(ShardAction_Heartbeat)), <<>>)

\* Shard::handle_event, the Heartbeat arm
handle_heartbeat(self) ==
    IF self.connection_stage = "Handshake"
    THEN Out([self EXCEPT !.connection_stage = "Identifying"],
             Ok(Some(ShardAction_Identify)), <<>>)
    ELSE Out(self, Ok(Some(ShardAction_Heartbeat)), <<>>)

\* Shard::handle_event, the Reconnect arm
handle_reconnect(self) ==
    Out(self, Ok(Some(ShardAction_Reconnect("Resume"))), <<>>)

\* InvalidSession arm that drops the session it is told cannot be resumed
handle_invalid_session_forget(self, resumable) ==
    IF resumable
    THEN Out(self, Ok(Some(ShardAction_Reconnect("Resume"))), <<>>)
    ELSE Out([self EXCEPT !.session_id = None, !.resume_url = None],
             Ok(Some(ShardAction_Reconnect("Identify"))), <<>>)

\* Shard::handle_event, the InvalidSession arm
handle_invalid_session(self, resumable) ==
    Out(self,
        Ok(Some(IF resumable
                THEN ShardAction_Reconnect("Resume")
                ELSE ShardAction_Reconnect("Identify"))),
        <<>>)

\* Hello arm that takes the interval for seconds
handle_hello_secs(self, interval_ms) ==
    LET s1 == [self EXCEPT
                  !.heartbeat_interval =
                      Some([secs |-> interval_ms, nanos |-> 0])]
    IN  Out(s1,
            Ok(Some(IF s1.connection_stage = "Handshake"
                    THEN ShardAction_Identify
                    ELSE ShardAction_Reconnect(IF is_some(s1.resume_url)
                                               THEN "Resume"
                                               ELSE "Identify"))),
            <<>>)

\* Hello arm that never resumes
handle_hello_identify_only(self, interval_ms) ==
    LET s1 == [self EXCEPT
                  !.heartbeat_interval = Some(Duration_from_millis(interval_ms))]
    IN  Out(s1,
            Ok(Some(IF s1.connection_stage = "Handshake"
                    THEN ShardAction_Identify
                    ELSE ShardAction_Reconnect("Identify"))),
            <<>>)

\* Shard::handle_event, the Hello arm
handle_hello(self, interval_ms) ==
    LET s1 == [self EXCEPT
                  !.heartbeat_interval = Some(Duration_from_millis(interval_ms))]
    IN  Out(s1,
            Ok(Some(IF s1.connection_stage = "Handshake"
                    THEN ShardAction_Identify
                    ELSE ShardAction_Reconnect(IF is_some(s1.resume_url)
                                               THEN "Resume"
                                               ELSE "Identify"))),
            <<>>)

\* Shard::handle_event, the HeartbeatAck arm
handle_heartbeat_ack(self) ==
    Out([self EXCEPT !.last_heartbeat_received = TRUE], Ok(None), <<>>)

\* Shard::handle_event; event is a Result<&Event>
handle_event(self, event) ==
    IF ~event.ok THEN Out(self, Err(event.err), <<>>)
    ELSE LET ev == event.val IN
         IF ev.receive_data = None THEN Out(self, Ok(None), <<>>)
         ELSE LET data == ev.receive_data[1] IN
              CASE data.tag = "Dispatch" -> handle_dispatch(self, ev, data.data)
                [] data.tag = "Heartbeat" -> handle_heartbeat(self)
                [] data.tag = "Reconnect" -> handle_reconnect(self)
                [] data.tag = "InvalidSession" ->
                       handle_invalid_session(self, data.resumable)
                [] data.tag = "Hello" ->
                       handle_hello(self, data.heartbeat_interval)
                [] data.tag = "HeartbeatAck" -> handle_heartbeat_ack(self)

\* Shard::heartbeat
heartbeat(self, send_ok) ==
    IF ~send_ok THEN Out(self, Err(WebsocketError), <<>>)
    ELSE Out([self EXCEPT !.last_heartbeat_sent = Some(Instant_now),
                          !.last_heartbeat_received = FALSE],
             Ok(Unit),
             <<send_heartbeat(self.websocket, Some(self.sequence))>>)

\* do_heartbeat_interval that compares whole seconds
do_heartbeat_interval_secs(self, send_ok) ==
    IF self.heartbeat_interval = None THEN Out(self, Bool(TRUE), <<>>)
    ELSE IF /\ is_some(self.last_heartbeat_sent)
            /\ Duration_from_millis(self.last_heartbeat_sent[1]).secs
                   <= self.heartbeat_interval[1].secs
    THEN Out(self, Bool(TRUE), <<>>)
    ELSE IF ~self.last_heartbeat_received THEN Out(self, Bool(FALSE), <<>>)
    ELSE LET r == heartbeat(self, send_ok) IN
         Out(r.self, Bool(r.ret.ok), r.sent)

\* do_heartbeat_interval that sends without looking at the time elapsed
do_heartbeat_interval_eager(self, send_ok) ==
    IF self.heartbeat_interval = None THEN Out(self, Bool(TRUE), <<>>)
    ELSE IF ~self.last_heartbeat_received THEN Out(self, Bool(FALSE), <<>>)
    ELSE LET r == heartbeat(self, send_ok) IN
         Out(r.self, Bool(r.ret.ok), r.sent)

\* do_heartbeat_interval that sends without looking at the acknowledgment
do_heartbeat_interval_unacked(self, send_ok) ==
    IF self.heartbeat_interval = None THEN Out(self, Bool(TRUE), <<>>)
    ELSE IF /\ is_some(self.last_heartbeat_sent)
            /\ Duration_le(Duration_from_millis(self.last_heartbeat_sent[1]),
                           self.heartbeat_interval[1])
    THEN Out(self, Bool(TRUE), <<>>)
    ELSE LET r == heartbeat(self, send_ok) IN
         Out(r.self, Bool(r.ret.ok), r.sent)

\* Shard::do_heartbeat_interval
do_heartbeat_interval(self, send_ok) ==
    IF self.heartbeat_interval = None THEN Out(self, Bool(TRUE), <<>>)
    ELSE IF /\ is_some(self.last_heartbeat_sent)
            /\ Duration_le(Duration_from_millis(self.last_heartbeat_sent[1]),
                           self.heartbeat_interval[1])
    THEN Out(self, Bool(TRUE), <<>>)
    ELSE IF ~self.last_heartbeat_received THEN Out(self, Bool(FALSE), <<>>)
    ELSE LET r == heartbeat(self, send_ok) IN
         Out(r.self, Bool(r.ret.ok), r.sent)

\* identify that opens a new link for the Identify frame
identify_reopen(self, send_ok) ==
    LET link == WebsocketClient_connect(self.websocket, GatewayUrl) IN
    IF ~send_ok THEN Out(self, Err(WebsocketError), <<>>)
    ELSE Out([self EXCEPT !.websocket = link,
                          !.last_heartbeat_sent = Some(Instant_now),
                          !.connection_stage = "Identifying"],
             Ok(Unit),
             <<send_identify(link, Token)>>)

\* Shard::identify
identify(self, send_ok) ==
    IF ~send_ok THEN Out(self, Err(WebsocketError), <<>>)
    ELSE Out([self EXCEPT !.last_heartbeat_sent = Some(Instant_now),
                          !.connection_stage = "Identifying"],
             Ok(Unit),
             <<send_identify(self.websocket, Token)>>)

\* resume that writes the Resume frame to the link it was called with
resume_stale_link(self, connect_ok, send_ok) ==
    LET r == init(self, connect_ok) IN
    IF ~r.ret.ok THEN r
    ELSE LET s2 == [r.self EXCEPT !.connection_stage = "Resuming"] IN
         IF s2.session_id = None
         THEN Out(s2, Err(NoSessionToResume), <<>>)
         ELSE IF ~send_ok THEN Out(s2, Err(WebsocketError), <<>>)
         ELSE Out(s2, Ok(Unit),
                  <<send_resume(self.websocket, Token, s2.session_id[1],
                                s2.sequence)>>)

\* resume that looks for the session before it touches the link
resume_check_first(self, connect_ok, send_ok) ==
    IF self.session_id = None THEN Out(self, Err(NoSessionToResume), <<>>)
    ELSE LET r == init(self, connect_ok) IN
         IF ~r.ret.ok THEN r
         ELSE LET s2 == [r.self EXCEPT !.connection_stage = "Resuming"] IN
              IF ~send_ok THEN Out(s2, Err(WebsocketError), <<>>)
              ELSE Out(s2, Ok(Unit),
                       <<send_resume(s2.websocket, Token, s2.session_id[1],
                                     s2.sequence)>>)

\* Shard::resume
resume(self, connect_ok, send_ok) ==
    LET r == init(self, connect_ok) IN
    IF ~r.ret.ok THEN r
    ELSE LET s2 == [r.self EXCEPT !.connection_stage = "Resuming"] IN
         IF s2.session_id = None
         THEN Out(s2, Err(NoSessionToResume), <<>>)
         ELSE IF ~send_ok THEN Out(s2, Err(WebsocketError), <<>>)
         ELSE Out(s2, Ok(Unit),
                  <<send_resume(s2.websocket, Token, s2.session_id[1],
                                s2.sequence)>>)

\* ---------------------------------------------------------------- steps
\* the Shard after an operation, with what the operation returned and sent
Apply(out) ==
    /\ pre' = Self
    /\ websocket' = out.self.websocket
    /\ connection_stage' = out.self.connection_stage
    /\ heartbeat_interval' = out.self.heartbeat_interval
    /\ last_heartbeat_sent' = out.self.last_heartbeat_sent
    /\ last_heartbeat_received' = out.self.last_heartbeat_received
    /\ sequence' = out.self.sequence
    /\ session_id' = out.self.session_id
    /\ resume_url' = out.self.resume_url
    /\ result' = out.ret
    /\ sent' = out.sent

\* bookkeeping of the "s" values given to handle_event
Observe(event) ==
    IF event.ok /\ is_some(event.val.sequence)
    THEN LET s == event.val.sequence[1] IN
         /\ increasing' = (/\ increasing
                           /\ event.val.op = "Dispatch"
                           /\ (observed_max = None \/ s > observed_max[1]))
         /\ observed_max' = IF is_some(observed_max) /\ observed_max[1] > s
                            THEN observed_max ELSE Some(s)
    ELSE UNCHANGED <<observed_max, increasing>>

InitShard ==
    /\ websocket = new.websocket
    /\ connection_stage = new.connection_stage
    /\ heartbeat_interval = new.heartbeat_interval
    /\ last_heartbeat_sent = new.last_heartbeat_sent
    /\ last_heartbeat_received = new.last_heartbeat_received
    /\ sequence = new.sequence
    /\ session_id = new.session_id
    /\ resume_url = new.resume_url
    /\ pre = new
    /\ call = [op |-> "new"]
    /\ result = Ok(Unit)
    /\ sent = <<>>
    /\ observed_max = None
    /\ increasing = TRUE
    /\ check_beat = None

InitDriver ==
    /\ pc = "do_heartbeat_interval"
    /\ action = None
    /\ missed_ack = FALSE

\* Shard::new has opened the link: the gateway owes it a Hello
InitGateway ==
    /\ inbox = <<>>
    /\ gw_todo = <<"Hello">>
    /\ gw_kicks = 0

Init == InitShard /\ InitDriver /\ InitGateway

\* time passes; the clock of the model stops at MaxElapsed
Tick ==
    /\ is_some(last_heartbeat_sent)
    /\ last_heartbeat_sent[1] < MaxElapsed
    /\ last_heartbeat_sent' = Some(last_heartbeat_sent[1] + 1)
    /\ pre' = Self
    /\ call' = [op |-> "tick"]
    /\ sent' = <<>>
    /\ UNCHANGED <<websocket, connection_stage, heartbeat_interval,
                   last_heartbeat_received, sequence, session_id, resume_url,
                   result, observed_max, increasing>>
    /\ check_beat' = IF is_some(check_beat) /\ check_beat[1].age < MaxElapsed
                   THEN Some([check_beat[1] EXCEPT !.age = @ + 1])
                   ELSE check_beat

\* ------------------------------------------- Spec: the operations of Shard
CallInputs == {Ok(ev) : ev \in SomeEvents} \cup {Err("Json")}

CallHandleEvent ==
    \E event \in CallInputs :
        /\ Apply(handle_event(Self, event))
        /\ call' = [op |-> "handle_event", event |-> event]

CallReset ==
    \E resuming \in BOOLEAN :
        /\ Apply(reset(Self, resuming))
        /\ call' = [op |-> "reset", resuming |-> resuming]

CallInit ==
    \E connect_ok \in BOOLEAN :
        /\ Apply(init(Self, connect_ok))
        /\ call' = [op |-> "init", connect_ok |-> connect_ok]

CallHeartbeat ==
    \E send_ok \in BOOLEAN :
        /\ Apply(heartbeat(Self, send_ok))
        /\ call' = [op |-> "heartbeat", send_ok |-> send_ok]

CallDoHeartbeatInterval ==
    \E send_ok \in BOOLEAN :
        /\ Apply(do_heartbeat_interval(Self, send_ok))
        /\ call' = [op |-> "do_heartbeat_interval", send_ok |-> send_ok]

CallIdentify ==
    \E send_ok \in BOOLEAN :
        /\ Apply(identify(Self, send_ok))
        /\ call' = [op |-> "identify", send_ok |-> send_ok]

CallResume ==
    \E connect_ok \in BOOLEAN, send_ok \in BOOLEAN :
        /\ Apply(resume(Self, connect_ok, send_ok))
        /\ call' = [op |-> "resume", connect_ok |-> connect_ok,
                    send_ok |-> send_ok]

rest_of_spec == <<observed_max, increasing, check_beat, driver_vars, gateway_vars>>

Next ==
    \/ Tick /\ UNCHANGED <<driver_vars, gateway_vars>>
    \/ CallHandleEvent /\ UNCHANGED rest_of_spec
    \/ CallReset /\ UNCHANGED rest_of_spec
    \/ CallInit /\ UNCHANGED rest_of_spec
    \/ CallHeartbeat /\ UNCHANGED rest_of_spec
    \/ CallDoHeartbeatInterval /\ UNCHANGED rest_of_spec
    \/ CallIdentify /\ UNCHANGED rest_of_spec
    \/ CallResume /\ UNCHANGED rest_of_spec

Spec == Init /\ [][Next]_vars

\* ------------------------------------ EventSpec: handle_event, call on call
FeedEvent ==
    \E event \in {Ok(ev) : ev \in Events} \cup {Err("Json")} :
        /\ Apply(handle_event(Self, event))
        /\ call' = [op |-> "handle_event", event |-> event]
        /\ Observe(event)
        /\ UNCHANGED <<check_beat, driver_vars, gateway_vars>>

EventNext == FeedEvent

EventSpec == Init /\ [][EventNext]_vars

\* ------ TimingSpec: do_heartbeat_interval called again and again, between
\* inbound events and the other operations on the link
TimedDoHeartbeatInterval ==
    \E send_ok \in BOOLEAN :
        LET out == do_heartbeat_interval(Self, send_ok) IN
        /\ Apply(out)
        /\ call' = [op |-> "do_heartbeat_interval", send_ok |-> send_ok]
        /\ check_beat' =
               IF out.sent = <<>> THEN check_beat
               ELSE Some([age |-> Instant_now,
                          gap |-> IF check_beat = None THEN None
                                  ELSE Some(check_beat[1].age)])

timing_rest == <<observed_max, increasing, driver_vars, gateway_vars>>

TimingNext ==
    \/ Tick /\ UNCHANGED <<driver_vars, gateway_vars>>
    \/ TimedDoHeartbeatInterval /\ UNCHANGED timing_rest
    \/ CallHandleEvent /\ UNCHANGED rest_of_spec
    \/ CallHeartbeat /\ UNCHANGED rest_of_spec
    \/ CallReset /\ UNCHANGED rest_of_spec
    \/ CallIdentify /\ UNCHANGED rest_of_spec

TimingSpec == Init /\ [][TimingNext]_vars

\* ------------------------- FairSpec: ShardManager::run against the gateway
\* what the gateway puts in flight for an entry of gw_todo
GatewayEvents(what) ==
    CASE what = "Hello" ->
            {Event("Hello", Some(ReceiveEventData_Hello(h)), None) :
                h \in HeartbeatIntervals}
      [] what = "Ready" ->
            {Event("Dispatch",
                   Some(ReceiveEventData_Dispatch(DispatchEvent_Ready(r))),
                   Some(1)) : r \in ReadyEvents}
      [] what = "Resumed" ->
            {Event("Dispatch",
                   Some(ReceiveEventData_Dispatch(DispatchEvent_Resumed)),
                   Some(MaxSeq))}
      [] what = "HeartbeatAck" ->
            {Event("HeartbeatACK", Some(ReceiveEventData_HeartbeatAck), None)}
      [] what = "Reconnect" ->
            {Event("Reconnect", Some(ReceiveEventData_Reconnect), None)}
      [] what = "InvalidSession" ->
            {Event("InvalidSession",
                   Some(ReceiveEventData_InvalidSession(b)), None) :
                b \in BOOLEAN}

\* the gateway's answer to a frame: Identify -> Ready, Resume -> Resumed,
\* Heartbeat -> HeartbeatAck
Answer(frame) ==
    CASE frame.op = "Identify" -> "Ready"
      [] frame.op = "Resume" -> "Resumed"
      [] frame.op = "Heartbeat" -> "HeartbeatAck"

RECURSIVE Answers(_)
Answers(frames) ==
    IF frames = <<>> THEN <<>>
    ELSE <<Answer(Head(frames).frame)>> \o Answers(Tail(frames))

\* the gateway end after the client's operation `out`: a link opened by the
\* operation starts empty and is owed a Hello, a link used again after a reset
\* is owed one too, and every frame sent is owed its answer
GatewaySees(out, reused) ==
    IF out.self.websocket # websocket
    THEN /\ inbox' = <<>>
         /\ gw_todo' = <<"Hello">> \o Answers(out.sent)
    ELSE /\ inbox' = inbox
         /\ gw_todo' = gw_todo
                \o (IF reused /\ out.sent # <<>> THEN <<"Hello">> ELSE <<>>)
                \o Answers(out.sent)

\* the gateway puts the next event it owes in flight
GatewayDeliver ==
    /\ gw_todo # <<>>
    /\ \E ev \in GatewayEvents(Head(gw_todo)) : inbox' = Append(inbox, ev)
    /\ gw_todo' = Tail(gw_todo)
    /\ UNCHANGED <<shard_vars, obs_vars, driver_vars, gw_kicks>>

\* the gateway asks, unprompted, a session it has established to reconnect
GatewayKick ==
    /\ gw_kicks < MaxGatewayKicks
    /\ connection_stage = "Connected"
    /\ gw_todo = <<>>
    /\ \E what \in {"Reconnect", "InvalidSession"} : gw_todo' = <<what>>
    /\ gw_kicks' = gw_kicks + 1
    /\ UNCHANGED <<shard_vars, obs_vars, driver_vars, inbox>>

\* ShardManager::run, the heartbeat check that opens each iteration
RunDoHeartbeatInterval ==
    /\ pc = "do_heartbeat_interval"
    /\ LET out == do_heartbeat_interval(Self, TRUE) IN
       /\ Apply(out)
       /\ GatewaySees(out, FALSE)
       /\ missed_ack' = ~out.ret.bool
    /\ call' = [op |-> "do_heartbeat_interval", send_ok |-> TRUE]
    /\ pc' = "receive_event"
    /\ UNCHANGED <<action, observed_max, increasing, check_beat, gw_kicks>>

\* time passes while the loop waits in WebsocketClient::receive
RunWait ==
    /\ pc = "receive_event"
    /\ Tick
    /\ UNCHANGED <<driver_vars, gateway_vars>>

\* ShardManager::receive_event: the wait times out, or the next event is
\* received and passed to handle_event
RunReceiveEvent ==
    /\ pc = "receive_event"
    /\ IF inbox = <<>>
       THEN /\ pre' = Self
            /\ call' = [op |-> "receive"]
            /\ result' = Ok(None)
            /\ sent' = <<>>
            /\ action' = None
            /\ UNCHANGED <<shard_vars, inbox>>
       ELSE LET out == handle_event(Self, Ok(Head(inbox))) IN
            /\ Apply(out)
            /\ call' = [op |-> "handle_event", event |-> Ok(Head(inbox))]
            /\ action' = out.ret.val
            /\ inbox' = Tail(inbox)
    /\ pc' = "match_action"
    /\ UNCHANGED <<missed_ack, observed_max, increasing, check_beat, gw_todo,
                   gw_kicks>>

\* ShardManager::run, `match action`: Heartbeat and Identify are executed,
\* Reconnect resets the Shard
RunAction ==
    /\ pc = "match_action"
    /\ IF action = None
       THEN /\ pc' = "do_heartbeat_interval"
            /\ UNCHANGED <<shard_vars, obs_vars, gateway_vars>>
       ELSE IF action = Some(ShardAction_Heartbeat)
       THEN LET out == heartbeat(Self, TRUE) IN
            /\ Apply(out)
            /\ GatewaySees(out, FALSE)
            /\ call' = [op |-> "heartbeat", send_ok |-> TRUE]
            /\ pc' = "do_heartbeat_interval"
            /\ UNCHANGED <<observed_max, increasing, check_beat, gw_kicks>>
       ELSE IF action = Some(ShardAction_Identify)
       THEN LET out == identify(Self, TRUE) IN
            /\ Apply(out)
            /\ GatewaySees(out, FALSE)
            /\ call' = [op |-> "identify", send_ok |-> TRUE]
            /\ pc' = "do_heartbeat_interval"
            /\ UNCHANGED <<observed_max, increasing, check_beat, gw_kicks>>
       ELSE LET resuming == action[1][2] = "Resume" IN
            /\ Apply(reset(Self, resuming))
            /\ call' = [op |-> "reset", resuming |-> resuming]
            /\ pc' = "reconnect"
            /\ UNCHANGED <<observed_max, increasing, check_beat,
                           gateway_vars>>
    /\ UNCHANGED <<action, missed_ack>>

\* ShardManager::run, the Reconnect arm after the reset: resume or identify
RunReconnect ==
    /\ pc = "reconnect"
    /\ IF action[1][2] = "Resume"
       THEN LET out == resume(Self, TRUE, TRUE) IN
            /\ Apply(out)
            /\ GatewaySees(out, FALSE)
            /\ call' = [op |-> "resume", connect_ok |-> TRUE,
                        send_ok |-> TRUE]
            /\ pc' = IF out.ret.ok THEN "do_heartbeat_interval" ELSE "error"
       ELSE LET out == identify(Self, TRUE) IN
            /\ Apply(out)
            /\ GatewaySees(out, TRUE)
            /\ call' = [op |-> "identify", send_ok |-> TRUE]
            /\ pc' = "do_heartbeat_interval"
    /\ UNCHANGED <<action, missed_ack, observed_max, increasing, check_beat,
                   gw_kicks>>

FairNext ==
    \/ RunDoHeartbeatInterval
    \/ RunWait
    \/ RunReceiveEvent
    \/ RunAction
    \/ RunReconnect
    \/ GatewayDeliver
    \/ GatewayKick

\* the loop is one task that runs whenever it can, and the gateway does not
\* hold back what it owes
FairSpec ==
    /\ Init
    /\ [][FairNext]_vars
    /\ WF_vars(RunDoHeartbeatInterval)
    /\ WF_vars(RunReceiveEvent)
    /\ WF_vars(RunAction)
    /\ WF_vars(RunReconnect)
    /\ WF_vars(GatewayDeliver)

\* ------------- DriverSpec: ShardManager::run, whatever comes over the link
\* JSON objects the gateway may send, well formed or not
Envelopes ==
    {Envelope(Some(0), s, Some("READY"), JReady(r)) :
        r \in ReadyEvents, s \in {None, Some(MaxSeq)}}
    \cup {Envelope(Some(0), s, Some("RESUMED"), JAbsent) :
        s \in {None, Some(MaxSeq)}}
    \cup {Envelope(Some(0), Some(MaxSeq), Some(t), JObject) :
        t \in {"GUILD_CREATE", "TYPING_START"}}
    \cup {Envelope(Some(op), None, None, JAbsent) : op \in {1, 2, 7, 11}}
    \cup {Envelope(Some(9), None, None, d) :
        d \in {JBool(TRUE), JBool(FALSE), JAbsent}}
    \cup {Envelope(Some(10), None, None, JHello(h)) : h \in HeartbeatIntervals}
    \cup {Envelope(None, None, None, JAbsent),
          Envelope(Some(5), None, None, JAbsent),
          Envelope(Some(256), Some(MaxSeq), Some("RESUMED"), JAbsent),
          Envelope(Some(266), None, None, JHello(1))}

CloseFrames == {[code |-> 4004, reason |-> "Authentication failed."]}

Messages ==
    {Message_Text(Some(e)) : e \in Envelopes}
    \cup {Message_Text(None), Message_Binary(FALSE, None), Message_Ping}
    \cup {Message_Binary(TRUE, Some(Envelope(Some(11), None, None, JAbsent)))}
    \cup {Message_Close(f) : f \in {None} \cup {Some(c) : c \in CloseFrames}}

Polls ==
    {Poll_Elapsed, Poll_End, Poll_Error}
        \cup {Poll_Message(m) : m \in Messages}

\* receive_event that answers a failure of receive with a reconnect
receive_event_absorb(self, polled) ==
    LET r == WebsocketClient_receive(self.websocket, polled)
        s1 == [self EXCEPT !.websocket = r.link]
    IN  IF ~r.ret.ok
        THEN Out(s1, Ok(<<None, Some(ShardAction_Reconnect("Resume"))>>), <<>>)
        ELSE IF r.ret.val = None THEN Out(s1, Ok(<<None, None>>), <<>>)
        ELSE LET h == handle_event(s1, Ok(r.ret.val[1])) IN
             IF ~h.ret.ok THEN h
             ELSE Out(h.self, Ok(<<r.ret.val, h.ret.val>>), h.sent)

\* ShardManager::receive_event; returns the pair (event, action)
receive_event(self, polled) ==
    LET r == WebsocketClient_receive(self.websocket, polled)
        s1 == [self EXCEPT !.websocket = r.link]
    IN  IF ~r.ret.ok THEN Out(s1, r.ret, <<>>)
        ELSE IF r.ret.val = None THEN Out(s1, Ok(<<None, None>>), <<>>)
        ELSE LET h == handle_event(s1, Ok(r.ret.val[1])) IN
             IF ~h.ret.ok THEN h
             ELSE Out(h.self, Ok(<<r.ret.val, h.ret.val>>), h.sent)

\* where run() goes when a `?` meets this result
Propagate(ret, then) ==
    IF ret.ok THEN then ELSE IF ret = Panic THEN "panicked" ELSE "error"

\* ShardManager::run, the heartbeat check that opens each iteration
DriverDoHeartbeatInterval ==
    /\ pc = "do_heartbeat_interval"
    /\ \E send_ok \in BOOLEAN :
           LET out == do_heartbeat_interval(Self, send_ok) IN
           /\ Apply(out)
           /\ call' = [op |-> "do_heartbeat_interval", send_ok |-> send_ok]
           /\ missed_ack' = ~out.ret.bool
    /\ pc' = "receive_event"
    /\ UNCHANGED <<action, observed_max, increasing, check_beat, gateway_vars>>

\* time passes while the loop waits in WebsocketClient::receive
DriverWait ==
    /\ pc = "receive_event"
    /\ Tick
    /\ UNCHANGED <<driver_vars, gateway_vars>>

\* ShardManager::run, `self.receive_event().await?`
DriverReceiveEvent ==
    /\ pc = "receive_event"
    /\ \E polled \in IF websocket.ended THEN {Poll_Terminated} ELSE Polls :
           LET out == receive_event(Self, polled) IN
           /\ Apply(out)
           /\ call' = [op |-> "receive_event", polled |-> polled]
           /\ action' = IF out.ret.ok THEN out.ret.val[2] ELSE None
           /\ pc' = Propagate(out.ret, "match_action")
    /\ UNCHANGED <<missed_ack, observed_max, increasing, check_beat,
                   gateway_vars>>

\* `match action` whose Reconnect arm resets the Shard and leaves it there
DriverAction_reset_only ==
    /\ pc = "match_action"
    /\ IF action = None
       THEN /\ pc' = "do_heartbeat_interval"
            /\ UNCHANGED <<shard_vars, obs_vars>>
       ELSE IF action = Some(ShardAction_Heartbeat)
       THEN \E send_ok \in BOOLEAN :
                LET out == heartbeat(Self, send_ok) IN
                /\ Apply(out)
                /\ call' = [op |-> "heartbeat", send_ok |-> send_ok]
                /\ pc' = Propagate(out.ret, "do_heartbeat_interval")
                /\ UNCHANGED <<observed_max, increasing, check_beat>>
       ELSE IF action = Some(ShardAction_Identify)
       THEN \E send_ok \in BOOLEAN :
                LET out == identify(Self, send_ok) IN
                /\ Apply(out)
                /\ call' = [op |-> "identify", send_ok |-> send_ok]
                /\ pc' = Propagate(out.ret, "do_heartbeat_interval")
                /\ UNCHANGED <<observed_max, increasing, check_beat>>
       ELSE LET kind == action[1][2] IN
            /\ Apply(reset(Self, kind = "Resume"))
            /\ call' = [op |-> "reconnect", kind |-> kind,
                        connect_ok |-> TRUE, send_ok |-> TRUE]
            /\ pc' = "do_heartbeat_interval"
            /\ UNCHANGED <<observed_max, increasing, check_beat>>
    /\ UNCHANGED <<action, missed_ack, gateway_vars>>

\* ShardManager::run, `match action`; the Reconnect arm is reset() followed
\* by resume() or identify()
DriverAction ==
    /\ pc = "match_action"
    /\ IF action = None
       THEN /\ pc' = "do_heartbeat_interval"
            /\ UNCHANGED <<shard_vars, obs_vars>>
       ELSE IF action = Some(ShardAction_Heartbeat)
       THEN \E send_ok \in BOOLEAN :
                LET out == heartbeat(Self, send_ok) IN
                /\ Apply(out)
                /\ call' = [op |-> "heartbeat", send_ok |-> send_ok]
                /\ pc' = Propagate(out.ret, "do_heartbeat_interval")
                /\ UNCHANGED <<observed_max, increasing, check_beat>>
       ELSE IF action = Some(ShardAction_Identify)
       THEN \E send_ok \in BOOLEAN :
                LET out == identify(Self, send_ok) IN
                /\ Apply(out)
                /\ call' = [op |-> "identify", send_ok |-> send_ok]
                /\ pc' = Propagate(out.ret, "do_heartbeat_interval")
                /\ UNCHANGED <<observed_max, increasing, check_beat>>
       ELSE LET kind == action[1][2]
                was_reset == reset(Self, kind = "Resume").self
            IN  \E connect_ok \in IF kind = "Resume" THEN BOOLEAN ELSE {TRUE},
                   send_ok \in BOOLEAN :
                    LET out == IF kind = "Resume"
                               THEN resume(was_reset, connect_ok, send_ok)
                               ELSE identify(was_reset, send_ok)
                    IN  /\ Apply(out)
                        /\ call' = [op |-> "reconnect", kind |-> kind,
                                    connect_ok |-> connect_ok,
                                    send_ok |-> send_ok]
                        /\ pc' = Propagate(out.ret, "do_heartbeat_interval")
                        /\ UNCHANGED <<observed_max, increasing, check_beat>>
    /\ UNCHANGED <<action, missed_ack, gateway_vars>>

DriverNext ==
    \/ DriverDoHeartbeatInterval
    \/ DriverWait
    \/ DriverReceiveEvent
    \/ DriverAction

DriverSpec == Init /\ [][DriverNext]_vars

\* ---------------------------------------------------------------- claims
\* the last step was handle_event on a decoded event carrying a payload
Handled ==
    /\ call.op = "handle_event"
    /\ call.event.ok
    /\ is_some(call.event.val.receive_data)
HandledData == call.event.val.receive_data[1]
HandledTag(tag) == Handled /\ HandledData.tag = tag
HandledReady == HandledTag("Dispatch") /\ HandledData.data.t = "READY"

\* C1: against this gateway, whenever the driver executes a Reconnect action
\* (it has reset the Shard and is about to resume or identify) the Shard
\* eventually reaches stage Connected
C1_RecoveryLiveness ==
    (pc = "reconnect") ~> (connection_stage = "Connected")

\* C2: a Hello{heartbeat_interval = h} handled in stage Handshake returns
\* Identify and leaves the stored interval equal to h milliseconds
\* (41250 ms is 41 s and 250000000 ns)
C2_HelloInHandshake ==
    (HandledTag("Hello") /\ pre.connection_stage = "Handshake") =>
        /\ result = Ok(Some(ShardAction_Identify))
        /\ is_some(heartbeat_interval)
        /\ Duration_as_millis(heartbeat_interval[1])
               = HandledData.heartbeat_interval
        /\ (HandledData.heartbeat_interval = 41250 =>
               heartbeat_interval[1] = [secs |-> 41, nanos |-> 250000000])

C2_Witness ==
    /\ HandledTag("Hello")
    /\ pre.connection_stage = "Handshake"
    /\ pre.heartbeat_interval = Some(Duration_from_millis(1))
    /\ HandledData.heartbeat_interval = 41250
    /\ result = Ok(Some(ShardAction_Identify))

\* C3: a Hello handled in any stage but Handshake stores the interval and
\* returns Reconnect(Resume) if resume_url is known, else Reconnect(Identify)
C3_HelloOutsideHandshake ==
    (HandledTag("Hello") /\ pre.connection_stage # "Handshake") =>
        /\ is_some(heartbeat_interval)
        /\ Duration_as_millis(heartbeat_interval[1])
               = HandledData.heartbeat_interval
        /\ result = Ok(Some(ShardAction_Reconnect(
                        IF is_some(pre.resume_url) THEN "Resume"
                                                   ELSE "Identify")))

C3_Witness ==
    /\ HandledTag("Hello")
    /\ pre.connection_stage = "Connected"
    /\ is_some(pre.resume_url)
    /\ pre.heartbeat_interval = None
    /\ result = Ok(Some(ShardAction_Reconnect("Resume")))

\* C4: in every stage an inbound Reconnect and an InvalidSession(true) return
\* Reconnect(Resume), an InvalidSession(false) returns Reconnect(Identify),
\* and stage, sequence, session_id, resume_url and the heartbeat state are
\* what they were before the call
C4_ReconnectRequests ==
    (HandledTag("Reconnect") \/ HandledTag("InvalidSession")) =>
        /\ result = Ok(Some(ShardAction_Reconnect(
                        IF HandledData.tag = "InvalidSession"
                           /\ ~HandledData.resumable
                        THEN "Identify" ELSE "Resume")))
        /\ connection_stage = pre.connection_stage
        /\ sequence = pre.sequence
        /\ session_id = pre.session_id
        /\ resume_url = pre.resume_url
        /\ heartbeat_interval = pre.heartbeat_interval
        /\ last_heartbeat_sent = pre.last_heartbeat_sent
        /\ last_heartbeat_received = pre.last_heartbeat_received

C4_Witness ==
    /\ HandledTag("InvalidSession")
    /\ ~HandledData.resumable
    /\ pre.connection_stage = "Connected"
    /\ is_some(pre.session_id)
    /\ pre.sequence > 0
    /\ is_some(pre.heartbeat_interval)
    /\ ~pre.last_heartbeat_received
    /\ result = Ok(Some(ShardAction_Reconnect("Identify")))

\* C5: in every stage Dispatch(Ready{session_id, resume_gateway_url}) returns
\* no action, sets stage = Connected, stores session_id and resume_url from
\* the event, and leaves no acknowledgment pending
C5_Ready ==
    HandledReady =>
        /\ result = Ok(None)
        /\ connection_stage = "Connected"
        /\ session_id = Some(HandledData.data.ready.session_id)
        /\ resume_url = Some(HandledData.data.ready.resume_gateway_url)
        /\ last_heartbeat_received

C5_Witness ==
    /\ HandledReady
    /\ pre.connection_stage = "Identifying"
    /\ ~pre.last_heartbeat_received
    /\ pre.session_id = Some("abc")
    /\ session_id = Some("def")
    /\ resume_url = Some("wss://y")

\* C8: reset(resuming) yields stage = Disconnected and sequence = 0; with
\* resuming = false also session_id = None and resume_url = None, with
\* resuming = true session_id and resume_url are what they were
C8_Reset ==
    (call.op = "reset") =>
        /\ connection_stage = "Disconnected"
        /\ sequence = 0
        /\ (~call.resuming => session_id = None /\ resume_url = None)
        /\ (call.resuming => /\ session_id = pre.session_id
                             /\ resume_url = pre.resume_url)

C8_Witness ==
    /\ call.op = "reset"
    /\ call.resuming
    /\ pre.connection_stage = "Connected"
    /\ pre.sequence > 0
    /\ session_id = Some("abc")
    /\ resume_url = Some("wss://x")

\* C9 as stated: after reset(resuming), for either value of resuming, the
\* interval is unknown, last_sent is absent and no acknowledgment is pending
C9_ResetClearsHeartbeatState ==
    (call.op = "reset") =>
        /\ heartbeat_interval = None
        /\ last_heartbeat_sent = None
        /\ last_heartbeat_received

\* C9 amended: after reset(resuming), for either value of resuming, the
\* interval is unknown, no acknowledgment is pending, and last_sent is
\* present and is the time of the reset
C9_ResetRestartsHeartbeatState ==
    (call.op = "reset") =>
        /\ heartbeat_interval = None
        /\ last_heartbeat_sent = Some(Instant_now)
        /\ last_heartbeat_received

C9_Witness ==
    /\ call.op = "reset"
    /\ is_some(pre.heartbeat_interval)
    /\ pre.last_heartbeat_sent = Some(MaxElapsed)
    /\ ~pre.last_heartbeat_received
    /\ last_heartbeat_sent = Some(Instant_now)

\* C10: resume() called while session_id is absent fails with
\* NoSessionToResume whatever the transport does, also when reopening the
\* link fails, and transmits no frame
C10_ResumeWithoutSession ==
    (call.op = "resume" /\ pre.session_id = None) =>
        /\ result = Err(NoSessionToResume)
        /\ sent = <<>>

\* C6: with no reset in between the stored sequence never decreases: after a
\* Dispatch event it is the larger of the previous stored sequence and the
\* event's "s", in whatever order the "s" values arrive
C6_SequenceIsMax ==
    HandledTag("Dispatch") =>
        /\ sequence >= pre.sequence
        /\ is_some(call.event.val.sequence) =>
               sequence = IF call.event.val.sequence[1] > pre.sequence
                          THEN call.event.val.sequence[1] ELSE pre.sequence

\* C7: while the "s" values have come on Dispatch events, in increasing
\* order, the stored sequence after each handle_event is the largest "s"
\* given so far (the initial 0 before any); an event lacking "s" leaves the
\* stored sequence as it was
C7_IncreasingSequence ==
    /\ increasing => sequence = unwrap_or(observed_max, 0)
    /\ (call.op = "handle_event" /\ call.event.ok
            /\ call.event.val.sequence = None) => sequence = pre.sequence

C7_Witness ==
    /\ increasing
    /\ observed_max = Some(MaxSeq)
    /\ pre.sequence = MaxSeq
    /\ HandledTag("Dispatch")
    /\ call.event.val.sequence = None
    /\ sequence = MaxSeq

\* C11: with a session S and resume URL U stored by a Ready, resume() first
\* replaces the link by a new one opened at U (at the original gateway URL when
\* no resume URL is stored), sets the stage to Resuming, and then writes to the
\* new link exactly one Resume frame with the token, S and the sequence stored
\* when resume() was called; session and sequence are left as they were
C11_Resume ==
    (call.op = "resume" /\ call.connect_ok) =>
        /\ websocket.id # pre.websocket.id
        /\ websocket.url = unwrap_or(pre.resume_url, GatewayUrl)
        /\ connection_stage = "Resuming"
        /\ session_id = pre.session_id
        /\ sequence = pre.sequence
        /\ (is_some(pre.session_id) /\ call.send_ok) =>
               /\ result = Ok(Unit)
               /\ sent = <<send_resume(websocket, Token, pre.session_id[1],
                                       pre.sequence)>>

C11_Witness ==
    /\ call.op = "resume"
    /\ call.connect_ok
    /\ call.send_ok
    /\ pre.session_id = Some("abc")
    /\ pre.resume_url = Some("wss://x")
    /\ pre.sequence = MaxSeq
    /\ websocket.url = "wss://x"
    /\ Len(sent) = 1
    /\ sent[1].frame.send_data[1].sequence = MaxSeq

\* C14: when the interval is known, more than one interval has passed since
\* last_heartbeat_sent and the last heartbeat is still unacknowledged, the
\* timing check returns false, sends nothing and leaves every field of the
\* Shard as it was
C14_MissedAck ==
    (/\ call.op = "do_heartbeat_interval"
     /\ is_some(pre.heartbeat_interval)
     /\ is_some(pre.last_heartbeat_sent)
     /\ ~Duration_le(Duration_from_millis(pre.last_heartbeat_sent[1]),
                     pre.heartbeat_interval[1])
     /\ ~pre.last_heartbeat_received) =>
        /\ result = Bool(FALSE)
        /\ sent = <<>>
        /\ Self = pre

C14_Witness ==
    /\ call.op = "do_heartbeat_interval"
    /\ call.send_ok
    /\ pre.heartbeat_interval = Some(Duration_from_millis(1))
    /\ pre.last_heartbeat_sent = Some(MaxElapsed)
    /\ ~pre.last_heartbeat_received
    /\ pre.connection_stage = "Connected"
    /\ is_some(pre.session_id)
    /\ result = Bool(FALSE)

\* C13: a timing check that sends a heartbeat sets last_heartbeat_sent to the
\* current time and leaves the acknowledgment pending; whatever events and
\* operations come between the checks, two heartbeats sent by the timing
\* check are more than one interval (the interval in force at the second)
\* apart
C13_OneBeatPerInterval ==
    (call.op = "do_heartbeat_interval" /\ sent # <<>>) =>
        /\ last_heartbeat_sent = Some(Instant_now)
        /\ ~last_heartbeat_received
        /\ is_some(check_beat[1].gap) =>
               ~Duration_le(Duration_from_millis(check_beat[1].gap[1]),
                            pre.heartbeat_interval[1])

C13_Witness ==
    /\ call.op = "do_heartbeat_interval"
    /\ sent # <<>>
    /\ check_beat = Some([age |-> 0, gap |-> Some(MaxElapsed)])
    /\ pre.heartbeat_interval = Some(Duration_from_millis(1))

\* the receive step of the loop has just run, or the iteration it opened has
\* ended without an action
Received == call.op = "receive_event"
ReceivedMessage(kind) ==
    /\ Received
    /\ call.polled.poll = "Message"
    /\ call.polled.message.kind = kind

\* C12: when the loop executes Reconnect(Resume), the Resume frame carries
\* the session id stored from Ready and the sequence the Shard held just
\* before the reconnect began
C12_ResumeCarriesSequence ==
    (call.op = "reconnect" /\ call.kind = "Resume" /\ sent # <<>>) =>
        /\ sent[1].frame.op = "Resume"
        /\ sent[1].frame.send_data[1].session_id = pre.session_id[1]
        /\ sent[1].frame.send_data[1].sequence = pre.sequence

\* C15: an iteration whose heartbeat check returned false (the
\* acknowledgment was missed) ends with a reconnect, reset followed by resume
\* or identify
C15_MissedAckEscalates ==
    (missed_ack /\ pc = "do_heartbeat_interval") => call.op = "reconnect"

\* C16: when receive fails (link closed, transport error, undecodable
\* message) the loop ends there with that error: no action is bound, nothing
\* is sent, and the Shard is left as the heartbeat check left it
C16_ReceiveFailureEndsLoop ==
    (Received /\ ~WebsocketClient_receive(pre.websocket, call.polled).ret.ok) =>
        /\ result = WebsocketClient_receive(pre.websocket, call.polled).ret
        /\ pc = IF result = Panic THEN "panicked" ELSE "error"
        /\ ~ENABLED DriverNext
        /\ action = None
        /\ sent = <<>>
        /\ Self = pre

C16_Witness ==
    /\ Received
    /\ call.polled = Poll_Message(Message_Text(None))
    /\ result = Err(JsonError)
    /\ pc = "error"
    /\ connection_stage = "Connected"
    /\ is_some(session_id)

\* C17: when the receive step times out, or receives a message that is
\* neither text, binary nor close, the iteration yields no event and no
\* action and no error, changes nothing in the Shard, and the loop goes on to
\* its next iteration
C17_NothingReceived ==
    (Received /\ (call.polled = Poll_Elapsed \/ ReceivedMessage("Ping"))) =>
        /\ result = Ok(<<None, None>>)
        /\ action = None
        /\ sent = <<>>
        /\ Self = pre
        /\ pc \in {"match_action", "do_heartbeat_interval"}
        /\ ENABLED DriverNext

C17_Witness ==
    /\ Received
    /\ call.polled = Poll_Elapsed
    /\ pc = "do_heartbeat_interval"
    /\ connection_stage = "Connected"
    /\ last_heartbeat_sent = Some(MaxElapsed)

\* C19: a Close message is never taken for "no message" nor for an event:
\* receive fails with Closed carrying the close frame (code and reason) when
\* there is one, and the loop ends
C19_CloseIsClosed ==
    ReceivedMessage("Close") =>
        /\ result = Closed(call.polled.message.frame)
        /\ pc = "error"

C19_Witness ==
    /\ ReceivedMessage("Close")
    /\ is_some(call.polled.message.frame)
    /\ result.err = "Gateway(Closed)"
    /\ result.frame[1].code = 4004
    /\ connection_stage = "Identifying"

\* C20: a message whose "op" is an integer outside
\* {0, 1, 2, 3, 4, 6, 7, 8, 9, 10, 11, 31}, 256 and above included, is
\* rejected: decoding it yields no event
C20_UnknownOpcodeRejected ==
    (/\ ReceivedMessage("Text")
     /\ is_some(call.polled.message.text)
     /\ is_some(call.polled.message.text[1].op)
     /\ call.polled.message.text[1].op[1] \notin OpCodeValues) =>
        ~result.ok

\* the heartbeat is due: the interval is known, more than one interval has
\* passed since last_heartbeat_sent and no acknowledgment is pending
Due(self) ==
    /\ is_some(self.heartbeat_interval)
    /\ is_some(self.last_heartbeat_sent)
    /\ ~Duration_le(Duration_from_millis(self.last_heartbeat_sent[1]),
                    self.heartbeat_interval[1])
    /\ self.last_heartbeat_received
\* nothing is on its way from the gateway
Silent == inbox = <<>> /\ gw_todo = <<>>
\* the heartbeat check has just sent a heartbeat
CheckBeat ==
    /\ call.op = "do_heartbeat_interval"
    /\ sent = <<send_heartbeat(websocket, Some(sequence))>>

\* C18: with the interval known and no acknowledgment pending, once more than
\* one interval has passed since last_heartbeat_sent the heartbeat check of
\* the loop sends a heartbeat when it next runs, and while the gateway stays
\* silent the loop does get to run it
C18_HeartbeatUnderSilence ==
    /\ []((call.op = "do_heartbeat_interval" /\ Due(pre)) =>
             /\ CheckBeat
             /\ last_heartbeat_sent = Some(Instant_now)
             /\ ~last_heartbeat_received)
    /\ (Due(Self) /\ Silent /\ pc # "error") ~> (CheckBeat \/ ~Silent)

C18_Witness ==
    /\ CheckBeat
    /\ Due(pre)
    /\ pre.last_heartbeat_sent = Some(MaxElapsed)
    /\ pre.connection_stage = "Connected"
    /\ pc = "receive_event"

\* C21: every frame sent (Heartbeat, Identify, Resume) is written as a JSON
\* object whose only keys are "op" and "d": no "s" and no "t", not even null
C21_OnlyOpAndD ==
    \A i \in 1..Len(sent) : DOMAIN sent[i].text = {"op", "d"}

\* the edges of the stage cycle
StageCycle ==
    { <<"Connecting", "Handshake">>,
      <<"Handshake", "Identifying">>, <<"Handshake", "Resuming">>,
      <<"Identifying", "Connected">>, <<"Resuming", "Connected">>,
      <<"Connected", "Disconnected">>,
      <<"Disconnected", "Connecting">> }
\* the values connection_stage took during the last operation, in order;
\* resume() writes it twice, in init() and after it
StagesTaken ==
    IF call.op = "resume"
    THEN <<pre.connection_stage,
           init(pre, call.connect_ok).self.connection_stage,
           connection_stage>>
    ELSE <<pre.connection_stage, connection_stage>>

\* C22: every change of connection_stage made by an operation of the Shard
\* in a run of the loop goes along an edge of the cycle Connecting ->
\* Handshake -> {Identifying | Resuming} -> Connected -> Disconnected ->
\* Connecting
C22_StageFollowsCycle ==
    \A i \in 1..(Len(StagesTaken) - 1) :
        \/ StagesTaken[i] = StagesTaken[i + 1]
        \/ <<StagesTaken[i], StagesTaken[i + 1]>> \in StageCycle

\* C23: the loop never rests in Disconnected: the reset that sets it is
\* followed, in the same iteration, by resume() or identify(), so the stage
\* differs from Disconnected wherever the loop is, unless it has ended with
\* an error
C23_DisconnectedNotResting ==
    /\ pc \in {"do_heartbeat_interval", "receive_event", "match_action"} =>
           connection_stage # "Disconnected"
    /\ connection_stage = "Disconnected" =>
           (pc = "error" /\ call.op = "reconnect" /\ ~result.ok)

C23_Witness ==
    /\ call.op = "reconnect"
    /\ call.kind = "Identify"
    /\ pre.connection_stage = "Connected"
    /\ pc = "do_heartbeat_interval"
    /\ connection_stage = "Identifying"

\* C24: the loop never calls resume() without a session: whatever the order
\* of the inbound events, a Reconnect(Resume) is executed only while
\* session_id is present, and the loop never ends with NoSessionToResume
C24_ResumeOnlyWithSession ==
    /\ (call.op = "reconnect" /\ call.kind = "Resume") =>
           is_some(pre.session_id)
    /\ pc = "error" => result # Err(NoSessionToResume)

\* C25: once a Hello has stored a heartbeat interval, no operation other
\* than reset changes it; a later Hello with another heartbeat_interval, in
\* any stage, does not
C25_IntervalStable ==
    (is_some(pre.heartbeat_interval) /\ call.op # "reset") =>
        heartbeat_interval = pre.heartbeat_interval

\* the last step of the loop tried to send a frame and the transport failed
SendFailed ==
    \/ /\ call.op \in {"heartbeat", "identify"}
       /\ ~call.send_ok
    \/ /\ call.op = "do_heartbeat_interval"
       /\ ~call.send_ok
       /\ do_heartbeat_interval(pre, TRUE).sent # <<>>
    \/ /\ call.op = "reconnect"
       /\ ~call.send_ok
       /\ \/ call.kind = "Identify"
          \/ call.connect_ok /\ is_some(pre.session_id)

\* C26: every transport failure met while the Shard sends a frame, the
\* heartbeat of the timing check included, comes back to the loop as an error
\* and ends it
C26_SendFailureEndsLoop ==
    SendFailed =>
        /\ pc = "error"
        /\ "ok" \in DOMAIN result
        /\ ~result.ok

\* C27: handle_event on a Heartbeat request returns Identify and sets the
\* stage to Identifying when the stage is Handshake; in every other stage it
\* returns Heartbeat and leaves the Shard as it was; it sends nothing itself
C27_HeartbeatRequest ==
    HandledTag("Heartbeat") =>
        /\ sent = <<>>
        /\ IF pre.connection_stage = "Handshake"
           THEN /\ result = Ok(Some(ShardAction_Identify))
                /\ Self = [pre EXCEPT !.connection_stage = "Identifying"]
           ELSE /\ result = Ok(Some(ShardAction_Heartbeat))
                /\ Self = pre

C27_Witness ==
    /\ HandledTag("Heartbeat")
    /\ pre.connection_stage = "Handshake"
    /\ connection_stage = "Identifying"
    /\ result = Ok(Some(ShardAction_Identify))

\* C28: when handle_event returns from a Hello received in stage Handshake,
\* the stage is already Identifying, before the Identify action is executed
C28_HelloMovesStage ==
    (HandledTag("Hello") /\ pre.connection_stage = "Handshake") =>
        connection_stage = "Identifying"

\* C29: in every state of the Shard, whatever operations led to it,
\* session_id is present exactly when resume_url is
C29_SessionIffResumeUrl ==
    is_some(session_id) <=> is_some(resume_url)

C29_Witness ==
    /\ call.op = "reset"
    /\ ~call.resuming
    /\ is_some(pre.session_id)
    /\ is_some(pre.resume_url)
    /\ session_id = None
    /\ resume_url = None

\* C30: Handshake is the stage of construction only: no operation takes the
\* stage to Handshake from another stage, and a Hello handled in any other
\* stage is answered with Reconnect, not Identify
C30_HandshakeOnlyAtConstruction ==
    /\ pre.connection_stage # "Handshake" => connection_stage # "Handshake"
    /\ (HandledTag("Hello") /\ pre.connection_stage # "Handshake") =>
           /\ result.ok
           /\ is_some(result.val)
           /\ result.val[1][1] = "Reconnect"

C30_Witness ==
    /\ HandledTag("Hello")
    /\ pre.connection_stage = "Resuming"
    /\ pre.websocket.id # new.websocket.id
    /\ result = Ok(Some(ShardAction_Reconnect("Resume")))

\* C31: in a run of the loop the link is reopened by resume() only: the
\* Identify and Reconnect(Identify) arms leave the link as it is and send the
\* Identify frame on it, and reset does not touch the link
C31_OnlyResumeReopens ==
    /\ websocket.id # pre.websocket.id =>
           (call.op = "reconnect" /\ call.kind = "Resume")
    /\ call.op = "reconnect" =>
           reset(pre, call.kind = "Resume").self.websocket = pre.websocket
    /\ (\/ call.op = "identify"
        \/ call.op = "reconnect" /\ call.kind = "Identify") =>
           /\ websocket = pre.websocket
           /\ call.send_ok => sent = <<send_identify(pre.websocket, Token)>>

C31_Witness ==
    /\ call.op = "reconnect"
    /\ call.kind = "Identify"
    /\ call.send_ok
    /\ pre.websocket.id # new.websocket.id
    /\ pre.websocket.url = "wss://x"
    /\ websocket = pre.websocket
    /\ Len(sent) = 1
    /\ sent[1].link = websocket.id
    /\ sent[1].frame.op = "Identify"

\* C32: a resume() that fails with NoSessionToResume has changed the Shard:
\* the link has been replaced by a newly opened one and the stage is
\* Resuming; sequence, session_id and resume_url are as they were and no
\* frame has been sent
C32_FailedResumeLeavesTraces ==
    (call.op = "resume" /\ result = Err(NoSessionToResume)) =>
        /\ websocket.id # pre.websocket.id
        /\ websocket.url = unwrap_or(pre.resume_url, GatewayUrl)
        /\ connection_stage = "Resuming"
        /\ sequence = pre.sequence
        /\ session_id = pre.session_id
        /\ resume_url = pre.resume_url
        /\ sent = <<>>

C32_Witness ==
    /\ call.op = "resume"
    /\ result = Err(NoSessionToResume)
    /\ pre.connection_stage = "Connected"
    /\ pre.sequence = MaxSeq
    /\ sequence = MaxSeq
    /\ connection_stage = "Resuming"
    /\ websocket.id # pre.websocket.id

====
